---- MODULE Spec2Model ----
(***************************************************************************)
(* The three OpenStack modules of the repository:                          *)
(*   cloud/openstack/os_keystone_service.py   (Keystone service entries)   *)
(*   cloud/openstack/os_keystone_endpoint.py  (Keystone endpoint entries)  *)
(*   cloud/openstack/heat.py                  (Heat stack poll loop)       *)
(* The remote Keystone catalogue is the state.  A run of a Keystone module *)
(* is a sequence of blocking API calls; every call is one action, and the  *)
(* ensure_* function is resumed with the answer of the call it waited for. *)
(*                                                                         *)
(*   Spec          one run at a time, among other users of the remote who  *)
(*                 act between its API calls                               *)
(*   SpecSequence  runs without check mode, one after another and alone on *)
(*                 the remote, logged three deep                           *)
(*   SpecMatch     the endpoint module, alone on the remote, on            *)
(*                 descriptors one field apart                             *)
(*   SpecRace      two runs at once, their API calls interleaved           *)
(*   SpecHeat      stack_operation, one action per pass of its loop        *)
(*   SpecHeatMain  main() of heat.py around stack_operation                *)
(*   SpecHeatLive  stack_operation on a remote that eventually raises or   *)
(*                 shows the awaited status                                *)
(***************************************************************************)
EXTENDS Naturals, Sequences, FiniteSets, TLC

VARIABLES
    services,    \* remote Keystone services: what cloud.services.list() returns
    endpoints,   \* remote Keystone endpoints: what cloud.endpoints.list() returns
    hist,        \* log of the latest runs made one after another with one
                 \* descriptor, each with the catalogue it started on
    operation,   \* heat: the operation argument of stack_operation
    pc,          \* heat: position of stack_operation
    existed,     \* heat: the list `existed`
    result,      \* heat: the dict `result`
    polls,       \* heat: what each heat.get() produced, the pending
                 \* lookups kept up to MaxPolls - 1 of them
    sleeps,      \* heat: number of time.sleep(5) calls after the lookups
                 \* kept in polls
    action,      \* heat: module.params['action'] of the running main()
    submitted,   \* heat: the stack create/delete calls main() issued, each
                 \* with the remote's answer
    exit,        \* heat: how main() ended
    procs,       \* the runs of the Keystone modules, each at one of its API
                 \* calls
    unique       \* whether the remote rejects a create call for attributes
                 \* that a resource already has

ksvars == <<services, endpoints, hist>>
loopvars == <<operation, pc, existed, result, polls, sleeps>>
mainvars == <<action, submitted, exit>>
heatvars == <<operation, pc, existed, result, polls, sleeps, action, submitted, exit>>
racevars == <<procs, unique>>
vars == <<services, endpoints, hist, operation, pc, existed, result, polls, sleeps, action, submitted, exit, procs, unique>>

(***************************************************************************)
(* Bounds of the model.                                                     *)
(***************************************************************************)
MaxServices == 2     \* identifiers the remote can hand out to services
MaxEndpoints == 2    \* identifiers the remote can hand out to endpoints
MaxPolls == 3        \* status lookups one poll loop may make in the model

(***************************************************************************)
(* Python values.                                                           *)
(***************************************************************************)
None == "None"       \* None where a string is expected (an unsupplied option)
NoneId == 0          \* None where an identifier is expected
PyTrue == "True"
PyFalse == "False"
PyNone == "None"     \* the value of a function that falls off its end
Missing == "missing" \* a key the module result does not carry

ServiceNames == {"glance", "nova"}
ServiceTypes == {"image"}
Descriptions == {"Not provided"}
Regions == {"aw1"}
PublicUrls == {"https://glance/"}
InternalUrls == {None}
AdminUrls == {None}

ServiceIds == 1..MaxServices
EndpointIds == 1..MaxEndpoints

\* the identifier the remote gives to a new resource
FreshId(used, ids) == CHOOSE i \in ids \ used : \A j \in ids \ used : i <= j

IdsOf(resources) == {x.id : x \in resources}

(***************************************************************************)
(* API calls, as they are logged.                                           *)
(***************************************************************************)
ServicesList == [api |-> "services.list", id |-> NoneId, attrs |-> <<>>]
EndpointsList == [api |-> "endpoints.list", id |-> NoneId, attrs |-> <<>>]
ServicesCreate(name, service_type, description) ==
    [api |-> "services.create", id |-> NoneId,
     attrs |-> <<name, service_type, description>>]
ServicesDelete(id) == [api |-> "services.delete", id |-> id, attrs |-> <<>>]
\* (the id of an endpoints.create call is the service_id it carries)
EndpointsCreate(service_id, region, publicurl, internalurl, adminurl) ==
    [api |-> "endpoints.create", id |-> service_id,
     attrs |-> <<region, publicurl, internalurl, adminurl>>]
EndpointsDelete(id) == [api |-> "endpoints.delete", id |-> id, attrs |-> <<>>]

(***************************************************************************)
(* A run stands at an API call (pc) until the remote answers; the function *)
(* that issued the call goes on from the answer to its next API call, to   *)
(* a return or to an exception.                                             *)
(***************************************************************************)
\* the answer of an API call: the exception it raised ("none" when it
\* returned) and what it returned
Answer(exc, val) == [exc |-> exc, val |-> val]

\* return changed, id / return changed
Return(pr, changed, id) ==
    [pr EXCEPT !.pc = "done", !.changed = changed, !.id = id]

\* an exception leaves the ensure_* function
Raise(pr, exc) == [pr EXCEPT !.pc = "done", !.exc = exc]

(***************************************************************************)
(* os_keystone_service.py                                                   *)
(***************************************************************************)
NoService == [id |-> NoneId, name |-> None, service_type |-> None,
              description |-> None]

\* service_exists(cloud, service_name), on the result of its list call
service_exists(svcs, service_name) ==
    service_name \in {x.name : x \in svcs}

\* get_service(cloud, service_name), on the result of its list call: the
\* service, or the exception raised
get_service(svcs, service_name) ==
    LET found == {x \in svcs : x.name = service_name}
        count == Cardinality(found)
    IN  IF count = 0 THEN [exc |-> "KeyError", val |-> NoService]
        ELSE IF count > 1 THEN [exc |-> "ValueError", val |-> NoService]
        ELSE [exc |-> "none", val |-> CHOOSE x \in found : TRUE]

\* cloud.services.create(name=, service_type=, description=) on a remote
\* that accepts the call
services_create(svcs, name, service_type, description) ==
    [id |-> FreshId(IdsOf(svcs), ServiceIds), name |-> name,
     service_type |-> service_type, description |-> description]

\* cloud.services.delete(id)
services_delete(svcs, id) == {x \in svcs : x.id # id}

\* ensure_service_exists as its docstring words it: (False, None) when the
\* service already existed
ensure_service_exists_docstring(pr, answer) ==
    IF pr.pc = "get"
    THEN LET got == get_service(answer.val, pr.args[1])
         IN  IF got.exc = "none" THEN Return(pr, PyFalse, NoneId)
             ELSE IF got.exc # "KeyError" THEN Raise(pr, got.exc)
             ELSE IF pr.check_mode THEN Return(pr, PyTrue, NoneId)
             ELSE [pr EXCEPT !.pc = "create"]
    ELSE IF answer.exc # "none" THEN Raise(pr, answer.exc)
         ELSE Return(pr, PyTrue, answer.val.id)

\* ensure_service_exists(cloud, service_name, service_type,
\*                       service_description, check_mode), resumed with the
\* answer of the call it stands at: the list call of get_service (pc "get")
\* or cloud.services.create (pc "create")
ensure_service_exists(pr, answer) ==
    IF pr.pc = "get"
    THEN LET got == get_service(answer.val, pr.args[1])
         IN  IF got.exc = "none" THEN Return(pr, PyFalse, got.val.id)
             ELSE IF got.exc # "KeyError" THEN Raise(pr, got.exc)
             ELSE IF pr.check_mode THEN Return(pr, PyTrue, NoneId)
             ELSE [pr EXCEPT !.pc = "create"]
    ELSE IF answer.exc # "none" THEN Raise(pr, answer.exc)
         ELSE Return(pr, PyTrue, answer.val.id)

\* ensure_service_absent without its check_mode return
ensure_service_absent_unchecked(pr, answer) ==
    IF pr.pc = "exists"
    THEN IF ~service_exists(answer.val, pr.args[1])
         THEN Return(pr, PyFalse, NoneId)
         ELSE [pr EXCEPT !.pc = "get"]
    ELSE IF pr.pc = "get"
    THEN LET got == get_service(answer.val, pr.args[1])
         IN  IF got.exc # "none" THEN Raise(pr, got.exc)
             ELSE [pr EXCEPT !.pc = "delete", !.target = got.val.id]
    ELSE IF answer.exc # "none" THEN Raise(pr, answer.exc)
         ELSE Return(pr, PyNone, NoneId)

\* ensure_service_absent that stops after get_service
ensure_service_absent_without_delete(pr, answer) ==
    IF pr.pc = "exists"
    THEN IF ~service_exists(answer.val, pr.args[1])
         THEN Return(pr, PyFalse, NoneId)
         ELSE IF pr.check_mode THEN Return(pr, PyTrue, NoneId)
         ELSE [pr EXCEPT !.pc = "get"]
    ELSE LET got == get_service(answer.val, pr.args[1])
         IN  IF got.exc # "none" THEN Raise(pr, got.exc)
             ELSE Return(pr, PyNone, NoneId)

\* ensure_service_absent(cloud, service_name, check_mode), resumed with the
\* answer of the call it stands at: the list call of service_exists (pc
\* "exists"), the list call of get_service (pc "get") or
\* cloud.services.delete (pc "delete")
ensure_service_absent(pr, answer) ==
    IF pr.pc = "exists"
    THEN IF ~service_exists(answer.val, pr.args[1])
         THEN Return(pr, PyFalse, NoneId)
         ELSE IF pr.check_mode THEN Return(pr, PyTrue, NoneId)
         ELSE [pr EXCEPT !.pc = "get"]
    ELSE IF pr.pc = "get"
    THEN LET got == get_service(answer.val, pr.args[1])
         IN  IF got.exc # "none" THEN Raise(pr, got.exc)
             ELSE [pr EXCEPT !.pc = "delete", !.target = got.val.id]
    ELSE IF answer.exc # "none" THEN Raise(pr, answer.exc)
         ELSE Return(pr, PyNone, NoneId)

(***************************************************************************)
(* os_keystone_endpoint.py                                                  *)
(***************************************************************************)
\* endpoint_match with the public and the internal URL taken for each other
endpoint_match_swapped_urls(endpoint, service_id, region, public_url, internal_url, admin_url) ==
    /\ endpoint.service_id = service_id
    /\ endpoint.region = region
    /\ endpoint.publicurl = internal_url
    /\ endpoint.internalurl = public_url
    /\ endpoint.adminurl = admin_url

\* endpoint_match without the comparison of adminurl
endpoint_match_without_admin_url(endpoint, service_id, region, public_url, internal_url, admin_url) ==
    /\ endpoint.service_id = service_id
    /\ endpoint.region = region
    /\ endpoint.publicurl = public_url
    /\ endpoint.internalurl = internal_url

\* endpoint_match(endpoint, service_id, region, public_url, internal_url,
\*                admin_url)
endpoint_match(endpoint, service_id, region, public_url, internal_url, admin_url) ==
    /\ endpoint.service_id = service_id
    /\ endpoint.region = region
    /\ endpoint.publicurl = public_url
    /\ endpoint.internalurl = internal_url
    /\ endpoint.adminurl = admin_url

NoEndpoint == [id |-> NoneId, service_id |-> NoneId, region |-> None,
               publicurl |-> None, internalurl |-> None, adminurl |-> None]

\* get_service(cloud, service_name) of the endpoint module, on the result
\* of its list call
ep_get_service(svcs, service_name) ==
    LET found == {x \in svcs : x.name = service_name}
        count == Cardinality(found)
    IN  IF count = 0 THEN [exc |-> "KeyError", val |-> NoService]
        ELSE IF count > 1 THEN [exc |-> "ValueError", val |-> NoService]
        ELSE [exc |-> "none", val |-> CHOOSE x \in found : TRUE]

\* endpoint_exists over the unfiltered list
endpoint_exists_unfiltered(eps, service_id, region, public_url, internal_url, admin_url) ==
    eps # {}

\* endpoint_exists(cloud, service_id, region, public_url, internal_url,
\*                 admin_url), on the result of its list call
endpoint_exists(eps, service_id, region, public_url, internal_url, admin_url) ==
    LET found == {x \in eps : endpoint_match(x, service_id, region,
                                  public_url, internal_url, admin_url)}
    IN  found # {}

\* get_endpoint that settles for any one of several matches
get_endpoint_any_match(eps, service_id, region, public_url, internal_url, admin_url) ==
    LET found == {x \in eps : endpoint_match(x, service_id, region,
                                  public_url, internal_url, admin_url)}
        count == Cardinality(found)
    IN  IF count = 0 THEN [exc |-> "KeyError", val |-> NoEndpoint]
        ELSE [exc |-> "none", val |-> CHOOSE x \in found : TRUE]

\* get_endpoint(cloud, service_id, region, public_url, internal_url,
\*              admin_url), on the result of its list call: the endpoint, or
\* the exception raised
get_endpoint(eps, service_id, region, public_url, internal_url, admin_url) ==
    LET found == {x \in eps : endpoint_match(x, service_id, region,
                                  public_url, internal_url, admin_url)}
        count == Cardinality(found)
    IN  IF count = 0 THEN [exc |-> "KeyError", val |-> NoEndpoint]
        ELSE IF count > 1 THEN [exc |-> "ValueError", val |-> NoEndpoint]
        ELSE [exc |-> "none", val |-> CHOOSE x \in found : TRUE]

\* cloud.endpoints.create(service_id=, region=, publicurl=, internalurl=,
\* adminurl=) on a remote that accepts the call
endpoints_create(eps, service_id, region, publicurl, internalurl, adminurl) ==
    [id |-> FreshId(IdsOf(eps), EndpointIds), service_id |-> service_id,
     region |-> region, publicurl |-> publicurl,
     internalurl |-> internalurl, adminurl |-> adminurl]

\* cloud.endpoints.delete(id)
endpoints_delete(eps, id) == {x \in eps : x.id # id}

\* ensure_endpoint_exists returning the service's identifier for the
\* endpoint it created
ensure_endpoint_exists_service_id(pr, answer) ==
    IF pr.pc = "service"
    THEN LET svc == ep_get_service(answer.val, pr.args[1])
         IN  IF svc.exc # "none" THEN Raise(pr, svc.exc)
             ELSE [pr EXCEPT !.pc = "get", !.service_id = svc.val.id]
    ELSE IF pr.pc = "get"
    THEN LET got == get_endpoint(answer.val, pr.service_id, pr.args[2],
                                 pr.args[3], pr.args[4], pr.args[5])
         IN  IF got.exc = "none" THEN Return(pr, PyFalse, got.val.id)
             ELSE IF got.exc # "KeyError" THEN Raise(pr, got.exc)
             ELSE IF pr.check_mode THEN Return(pr, PyTrue, NoneId)
             ELSE [pr EXCEPT !.pc = "create"]
    ELSE IF answer.exc # "none" THEN Raise(pr, answer.exc)
         ELSE Return(pr, PyTrue, pr.service_id)

\* ensure_endpoint_exists(cloud, service_name, region, public_url,
\*                        internal_url, admin_url, check_mode), resumed with
\* the answer of the call it stands at: the list call of get_service (pc
\* "service"), the list call of get_endpoint (pc "get") or
\* cloud.endpoints.create (pc "create")
ensure_endpoint_exists(pr, answer) ==
    IF pr.pc = "service"
    THEN LET svc == ep_get_service(answer.val, pr.args[1])
         IN  IF svc.exc # "none" THEN Raise(pr, svc.exc)
             ELSE [pr EXCEPT !.pc = "get", !.service_id = svc.val.id]
    ELSE IF pr.pc = "get"
    THEN LET got == get_endpoint(answer.val, pr.service_id, pr.args[2],
                                 pr.args[3], pr.args[4], pr.args[5])
         IN  IF got.exc = "none" THEN Return(pr, PyFalse, got.val.id)
             ELSE IF got.exc # "KeyError" THEN Raise(pr, got.exc)
             ELSE IF pr.check_mode THEN Return(pr, PyTrue, NoneId)
             ELSE [pr EXCEPT !.pc = "create"]
    ELSE IF answer.exc # "none" THEN Raise(pr, answer.exc)
         ELSE Return(pr, PyTrue, answer.val.id)

\* ensure_endpoint_absent taking a missing service for a missing endpoint
ensure_endpoint_absent_no_service(pr, answer) ==
    IF pr.pc = "service"
    THEN LET svc == ep_get_service(answer.val, pr.args[1])
         IN  IF svc.exc = "KeyError" THEN Return(pr, PyFalse, NoneId)
             ELSE IF svc.exc # "none" THEN Raise(pr, svc.exc)
             ELSE [pr EXCEPT !.pc = "exists", !.service_id = svc.val.id]
    ELSE IF pr.pc = "exists"
    THEN IF ~endpoint_exists(answer.val, pr.service_id, pr.args[2],
                             pr.args[3], pr.args[4], pr.args[5])
         THEN Return(pr, PyFalse, NoneId)
         ELSE IF pr.check_mode THEN Return(pr, PyTrue, NoneId)
         ELSE [pr EXCEPT !.pc = "get"]
    ELSE IF pr.pc = "get"
    THEN LET got == get_endpoint(answer.val, pr.service_id, pr.args[2],
                                 pr.args[3], pr.args[4], pr.args[5])
         IN  IF got.exc # "none" THEN Raise(pr, got.exc)
             ELSE [pr EXCEPT !.pc = "delete", !.target = got.val.id]
    ELSE IF answer.exc # "none" THEN Raise(pr, answer.exc)
         ELSE Return(pr, PyNone, NoneId)

\* ensure_endpoint_absent(cloud, service_name, region, public_url,
\*                        internal_url, admin_url, check_mode), resumed with
\* the answer of the call it stands at: the list call of get_service (pc
\* "service"), of endpoint_exists (pc "exists"), of get_endpoint (pc "get")
\* or cloud.endpoints.delete (pc "delete")
ensure_endpoint_absent(pr, answer) ==
    IF pr.pc = "service"
    THEN LET svc == ep_get_service(answer.val, pr.args[1])
         IN  IF svc.exc # "none" THEN Raise(pr, svc.exc)
             ELSE [pr EXCEPT !.pc = "exists", !.service_id = svc.val.id]
    ELSE IF pr.pc = "exists"
    THEN IF ~endpoint_exists(answer.val, pr.service_id, pr.args[2],
                             pr.args[3], pr.args[4], pr.args[5])
         THEN Return(pr, PyFalse, NoneId)
         ELSE IF pr.check_mode THEN Return(pr, PyTrue, NoneId)
         ELSE [pr EXCEPT !.pc = "get"]
    ELSE IF pr.pc = "get"
    THEN LET got == get_endpoint(answer.val, pr.service_id, pr.args[2],
                                 pr.args[3], pr.args[4], pr.args[5])
         IN  IF got.exc # "none" THEN Raise(pr, got.exc)
             ELSE [pr EXCEPT !.pc = "delete", !.target = got.val.id]
    ELSE IF answer.exc # "none" THEN Raise(pr, answer.exc)
         ELSE Return(pr, PyNone, NoneId)

(***************************************************************************)
(* main() of the two Keystone modules: call the function the state selects *)
(* and, once it has returned or raised, build the module result.            *)
(***************************************************************************)
\* the module result before main() has built it
NoJson == [failed |-> FALSE, changed |-> Missing, id |-> NoneId,
           msg |-> Missing]

\* module.exit_json(changed=changed, id=_id); an id of None and a result
\* without id are both written NoneId
exit_json(changed, id) ==
    [failed |-> FALSE, changed |-> changed, id |-> id, msg |-> Missing]

\* the except branch of main() without its check-mode case
on_exception_fail_json(exc, check_mode) ==
    [failed |-> TRUE, changed |-> Missing, id |-> NoneId, msg |-> exc]

\* the except branch of main()
on_exception(exc, check_mode) ==
    IF check_mode
    THEN [failed |-> FALSE, changed |-> PyTrue, id |-> NoneId, msg |-> exc]
    ELSE [failed |-> TRUE, changed |-> Missing, id |-> NoneId, msg |-> exc]

\* the try/except/else of main(), once the ensure_* function has returned
\* or raised
main_result(pr) ==
    IF pr.pc # "done" THEN pr
    ELSE IF pr.exc # "none"
    THEN [pr EXCEPT !.json = on_exception(pr.exc, pr.check_mode)]
    ELSE [pr EXCEPT !.json = exit_json(pr.changed, pr.id)]

\* cloud = shade.openstack_cloud(**module.params) raising inside the try of
\* main(): no ensure_* function runs and no API call is issued
openstack_cloud_failed(pr) == main_result(Raise(pr, "AuthError"))

\* main() of os_keystone_service.py, resumed with the answer of an API call
service_main(pr, answer) ==
    main_result(IF pr.state = "present"
                THEN ensure_service_exists(pr, answer)
                ELSE ensure_service_absent(pr, answer))

\* main() of os_keystone_endpoint.py, resumed with the answer of an API
\* call
endpoint_main(pr, answer) ==
    main_result(IF pr.state = "present"
                THEN ensure_endpoint_exists(pr, answer)
                ELSE ensure_endpoint_absent(pr, answer))

\* the module that is run
module_main(pr, answer) ==
    IF pr.mod = "service" THEN service_main(pr, answer)
    ELSE endpoint_main(pr, answer)

(***************************************************************************)
(* The runs.  Nothing in the modules coordinates a run with anything else  *)
(* that uses the remote: between two of its API calls the catalogue can    *)
(* change.                                                                  *)
(***************************************************************************)
Procs == {1, 2}

\* a run: the call it stands at, its parameters, the local variables of
\* the ensure_* function (service_id, target), what its calls were answered
\* (named, found, made), how the function ended (exc, changed, id), the API
\* calls issued and the module result
\*   named  identifiers of the services that carried service_name in the
\*          list get_service of the endpoint module read
\*   found  per lookup of the resource, the identifiers of the listed
\*          resources that carry the attributes asked for
\*   made   identifier of the resource the create call returned
IdleProc ==
    [pc |-> "idle", mod |-> None, state |-> None, args |-> <<>>,
     check_mode |-> FALSE, service_id |-> NoneId, target |-> NoneId,
     named |-> {}, found |-> <<>>, made |-> NoneId,
     exc |-> "none", changed |-> PyNone, id |-> NoneId, calls |-> <<>>,
     json |-> NoJson]

\* the first API call of a run
FirstCall(mod, state) ==
    IF mod = "endpoint" THEN "service"
    ELSE IF state = "present" THEN "get" ELSE "exists"

\* main() calls ensure_*: the run stands before its first API call
Started(mod, state, args, check_mode) ==
    [IdleProc EXCEPT !.pc = FirstCall(mod, state), !.mod = mod,
                     !.state = state, !.args = args,
                     !.check_mode = check_mode]

RemoteList(mod) == IF mod = "service" THEN services ELSE endpoints

\* the list call of the module's resource, as it is logged
ListCall(mod) == IF mod = "service" THEN ServicesList ELSE EndpointsList

\* the identifiers of the services in a list result that carry a name
Named(listed, name) == {x.id : x \in {y \in listed : y.name = name}}

\* the identifiers of the resources in a list result that carry the
\* attributes the run asks for
Matching(pr, listed) ==
    IF pr.mod = "service"
    THEN Named(listed, pr.args[1])
    ELSE {e.id : e \in {x \in listed :
              <<x.service_id, x.region, x.publicurl, x.internalurl,
                x.adminurl>> =
              <<pr.service_id, pr.args[2], pr.args[3], pr.args[4],
                pr.args[5]>>}}

\* the create call of the run, as it is logged
CreateCall(pr) ==
    IF pr.mod = "service"
    THEN ServicesCreate(pr.args[1], pr.args[2], pr.args[3])
    ELSE EndpointsCreate(pr.service_id, pr.args[2], pr.args[3], pr.args[4],
                         pr.args[5])

\* the delete call of the run, as it is logged
DeleteCall(pr) ==
    IF pr.mod = "service" THEN ServicesDelete(pr.target)
    ELSE EndpointsDelete(pr.target)

\* the resource a create call of the run adds to the remote
proc_create(pr) ==
    IF pr.mod = "service"
    THEN services_create(services, pr.args[1], pr.args[2], pr.args[3])
    ELSE endpoints_create(endpoints, pr.service_id, pr.args[2], pr.args[3],
                          pr.args[4], pr.args[5])

(***************************************************************************)
(* Initial state: an empty catalogue, no run made, no poll loop.            *)
(***************************************************************************)
NoResult == [changed |-> Missing, failed |-> Missing, output |-> Missing]

Init ==
    /\ services = {}
    /\ endpoints = {}
    /\ hist = <<>>
    /\ operation = None
    /\ pc = "idle"
    /\ existed = <<>>
    /\ result = NoResult
    /\ polls = <<>>
    /\ sleeps = 0
    /\ action = None
    /\ submitted = <<>>
    /\ exit = "none"
    /\ procs = [p \in Procs |-> IdleProc]
    /\ unique = FALSE

(***************************************************************************)
(* The API calls of a run, one action each.                                 *)
(***************************************************************************)
RaceUnchanged == UNCHANGED <<hist, heatvars, unique>>

\* os_keystone_endpoint: service_id = get_service(cloud, service_name).id
CallGetServiceId ==
    \E p \in Procs :
        LET pr == procs[p]
            asked == [pr EXCEPT !.calls = Append(@, ServicesList),
                                !.named = Named(services, pr.args[1])]
        IN  /\ pr.pc = "service"
            /\ procs' = [procs EXCEPT ![p] =
                             module_main(asked, Answer("none", services))]
            /\ UNCHANGED <<services, endpoints>>
            /\ RaceUnchanged

\* ensure_*_absent: if not service_exists(...) / endpoint_exists(...), and
\* on to the next API call
CallExists ==
    \E p \in Procs :
        LET pr == procs[p]
            listed == RemoteList(pr.mod)
            asked == [pr EXCEPT !.calls = Append(@, ListCall(pr.mod)),
                                !.found = Append(@, Matching(pr, listed))]
        IN  /\ pr.pc = "exists"
            /\ procs' = [procs EXCEPT ![p] =
                             module_main(asked, Answer("none", listed))]
            /\ UNCHANGED <<services, endpoints>>
            /\ RaceUnchanged

\* get_service(...) / get_endpoint(...): the one lookup of ensure_*_exists,
\* the second lookup of ensure_*_absent, and on to the next API call
CallGet ==
    \E p \in Procs :
        LET pr == procs[p]
            listed == RemoteList(pr.mod)
            asked == [pr EXCEPT !.calls = Append(@, ListCall(pr.mod)),
                                !.found = Append(@, Matching(pr, listed))]
        IN  /\ pr.pc = "get"
            /\ procs' = [procs EXCEPT ![p] =
                             module_main(asked, Answer("none", listed))]
            /\ UNCHANGED <<services, endpoints>>
            /\ RaceUnchanged

\* cloud.services.create(...) / cloud.endpoints.create(...); the remote
\* takes the call, rejects it, or (where it keeps resources unique) refuses
\* a second resource with the same attributes
CallCreate ==
    \E p \in Procs, accept \in BOOLEAN :
        LET pr == procs[p]
            taken == unique /\ Matching(pr, RemoteList(pr.mod)) # {}
            made == proc_create(pr)
            ok == accept /\ ~taken
            asked == [pr EXCEPT !.calls = Append(@, CreateCall(pr)),
                                !.made = IF ok THEN made.id ELSE NoneId]
        IN  /\ pr.pc = "create"
            /\ IF ok
               THEN /\ IF pr.mod = "service"
                       THEN /\ Cardinality(services) < MaxServices
                            /\ services' = services \cup {made}
                            /\ UNCHANGED endpoints
                       ELSE /\ Cardinality(endpoints) < MaxEndpoints
                            /\ endpoints' = endpoints \cup {made}
                            /\ UNCHANGED services
                    /\ procs' = [procs EXCEPT ![p] =
                           module_main(asked, Answer("none", made))]
               ELSE /\ procs' = [procs EXCEPT ![p] =
                           module_main(asked,
                               Answer(IF accept THEN "Conflict"
                                      ELSE "Rejected", PyNone))]
                    /\ UNCHANGED <<services, endpoints>>
            /\ RaceUnchanged

\* cloud.services.delete(id) / cloud.endpoints.delete(id); the remote takes
\* the call, rejects it, or no longer holds the resource
CallDelete ==
    \E p \in Procs, accept \in BOOLEAN :
        LET pr == procs[p]
            there == pr.target \in IdsOf(RemoteList(pr.mod))
            asked == [pr EXCEPT !.calls = Append(@, DeleteCall(pr))]
        IN  /\ pr.pc = "delete"
            /\ IF accept /\ there
               THEN /\ IF pr.mod = "service"
                       THEN /\ services' = services_delete(services,
                                                           pr.target)
                            /\ UNCHANGED endpoints
                       ELSE /\ endpoints' = endpoints_delete(endpoints,
                                                             pr.target)
                            /\ UNCHANGED services
                    /\ procs' = [procs EXCEPT ![p] =
                           module_main(asked, Answer("none", PyNone))]
               ELSE /\ procs' = [procs EXCEPT ![p] =
                           module_main(asked,
                               Answer(IF accept THEN "NotFound"
                                      ELSE "Rejected", PyNone))]
                    /\ UNCHANGED <<services, endpoints>>
            /\ RaceUnchanged

(***************************************************************************)
(* One run at a time among the other users of the same Keystone, who       *)
(* create and delete services and endpoints between its API calls.         *)
(***************************************************************************)
\* the parameters a module can be run with
ModuleArgs(mod) ==
    IF mod = "service"
    THEN {<<name, type, desc>> : name \in ServiceNames,
              type \in ServiceTypes, desc \in Descriptions}
    ELSE {<<name, region, pub, int, adm>> : name \in ServiceNames,
              region \in Regions, pub \in PublicUrls,
              int \in InternalUrls, adm \in AdminUrls}

\* either module is run, up to its first API call
InvokeAmong ==
    \E mod \in {"service", "endpoint"}, state \in {"present", "absent"},
       check_mode \in BOOLEAN :
        \E args \in ModuleArgs(mod) :
            /\ procs[1].pc \in {"idle", "done"}
            /\ procs' = [procs EXCEPT ![1] =
                             Started(mod, state, args, check_mode)]
            /\ UNCHANGED <<services, endpoints>>
            /\ RaceUnchanged

\* either module is run, with shade.openstack_cloud() raising
AuthFails ==
    \E mod \in {"service", "endpoint"}, state \in {"present", "absent"},
       check_mode \in BOOLEAN :
        \E args \in ModuleArgs(mod) :
            /\ procs[1].pc \in {"idle", "done"}
            /\ procs' = [procs EXCEPT ![1] =
                             openstack_cloud_failed(
                                 Started(mod, state, args, check_mode))]
            /\ UNCHANGED <<services, endpoints>>
            /\ RaceUnchanged

\* the other users are followed as far as the run can see them: once main()
\* has exited it makes no further call, and what becomes of the remote
\* afterwards is what the next run starts on
Watched == procs[1].pc # "done"

OtherCreatesService ==
    \E name \in ServiceNames, type \in ServiceTypes, desc \in Descriptions :
        /\ Cardinality(services) < MaxServices
        /\ unique => ~service_exists(services, name)
        /\ services' = services \cup
                           {services_create(services, name, type, desc)}
        /\ Watched
        /\ UNCHANGED <<endpoints, procs>>
        /\ RaceUnchanged

OtherDeletesService ==
    \E x \in services :
        /\ services' = services_delete(services, x.id)
        /\ Watched
        /\ UNCHANGED <<endpoints, procs>>
        /\ RaceUnchanged

OtherCreatesEndpoint ==
    \E sid \in IdsOf(services), region \in Regions, pub \in PublicUrls,
       int \in InternalUrls, adm \in AdminUrls :
        /\ Cardinality(endpoints) < MaxEndpoints
        /\ unique => ~endpoint_exists(endpoints, sid, region, pub, int, adm)
        /\ endpoints' = endpoints \cup
                            {endpoints_create(endpoints, sid, region, pub,
                                              int, adm)}
        /\ Watched
        /\ UNCHANGED <<services, procs>>
        /\ RaceUnchanged

OtherDeletesEndpoint ==
    \E x \in endpoints :
        /\ endpoints' = endpoints_delete(endpoints, x.id)
        /\ Watched
        /\ UNCHANGED <<services, procs>>
        /\ RaceUnchanged

InitRace ==
    /\ services = {}
    /\ endpoints = {}
    /\ hist = <<>>
    /\ operation = None
    /\ pc = "idle"
    /\ existed = <<>>
    /\ result = NoResult
    /\ polls = <<>>
    /\ sleeps = 0
    /\ action = None
    /\ submitted = <<>>
    /\ exit = "none"
    /\ procs = [p \in Procs |-> IdleProc]
    /\ unique \in BOOLEAN

Next ==
    \/ InvokeAmong
    \/ AuthFails
    \/ CallGetServiceId
    \/ CallExists
    \/ CallGet
    \/ CallCreate
    \/ CallDelete
    \/ OtherCreatesService
    \/ OtherDeletesService
    \/ OtherCreatesEndpoint
    \/ OtherDeletesEndpoint

Spec == InitRace /\ [][Next]_vars

(***************************************************************************)
(* Runs made one after another by the only user of the remote, on any      *)
(* catalogue: Keystone keeps neither the names of services nor the         *)
(* attributes of endpoints unique, and an endpoint can outlive its         *)
(* service.  The log keeps the latest three runs made with one descriptor. *)
(***************************************************************************)
ServiceShapes ==
    [name : ServiceNames, service_type : ServiceTypes,
     description : Descriptions]

EndpointShapes ==
    [service_id : ServiceIds, region : Regions, publicurl : PublicUrls,
     internalurl : InternalUrls, adminurl : AdminUrls]

\* every set of services with distinct identifiers
ServiceCatalogues ==
    UNION {{{[id |-> i, name |-> f[i].name,
              service_type |-> f[i].service_type,
              description |-> f[i].description] : i \in ids} :
               f \in [ids -> ServiceShapes]} : ids \in SUBSET ServiceIds}

\* every set of endpoints with distinct identifiers
EndpointCatalogues ==
    UNION {{{[id |-> i, service_id |-> f[i].service_id,
              region |-> f[i].region, publicurl |-> f[i].publicurl,
              internalurl |-> f[i].internalurl,
              adminurl |-> f[i].adminurl] : i \in ids} :
               f \in [ids -> EndpointShapes]} : ids \in SUBSET EndpointIds}

InitKeystone ==
    /\ services \in ServiceCatalogues
    /\ endpoints \in EndpointCatalogues
    /\ hist = <<>>
    /\ operation = None
    /\ pc = "idle"
    /\ existed = <<>>
    /\ result = NoResult
    /\ polls = <<>>
    /\ sleeps = 0
    /\ action = None
    /\ submitted = <<>>
    /\ exit = "none"
    /\ procs = [p \in Procs |-> IdleProc]
    /\ unique = FALSE

\* a run enters the log with the catalogue it starts on
Opened(mod, state, args, check_mode) ==
    [mod |-> mod, state |-> state, args |-> args, check_mode |-> check_mode,
     pre_services |-> services, pre_endpoints |-> endpoints,
     closed |-> FALSE, exc |-> "none", changed |-> PyNone, id |-> NoneId,
     calls |-> <<>>, json |-> NoJson]

\* main() has exited: the log takes what the run returned and issued
Closed(rec, pr) ==
    [rec EXCEPT !.closed = TRUE, !.exc = pr.exc, !.changed = pr.changed,
                !.id = pr.id, !.calls = pr.calls, !.json = pr.json]

SameDescriptor(rec, mod, args) == rec.mod = mod /\ rec.args = args

LoggedSequence(rec) ==
    IF hist # <<>> /\ SameDescriptor(hist[Len(hist)], rec.mod, rec.args)
    THEN IF Len(hist) < 3
         THEN Append(hist, rec)
         ELSE <<hist[2], hist[3], rec>>
    ELSE <<rec>>

\* either module is run without check mode, up to its first API call
RunStarts ==
    \E mod \in {"service", "endpoint"}, state \in {"present", "absent"} :
        \E args \in ModuleArgs(mod) :
            /\ procs[1].pc = "idle"
            /\ procs' = [procs EXCEPT ![1] =
                             Started(mod, state, args, FALSE)]
            /\ hist' = LoggedSequence(Opened(mod, state, args, FALSE))
            /\ UNCHANGED <<services, endpoints, heatvars, unique>>

\* module.exit_json(...) / module.fail_json(...): the run is over
RunExits ==
    /\ procs[1].pc = "done"
    /\ hist' = [hist EXCEPT ![Len(hist)] = Closed(@, procs[1])]
    /\ procs' = [procs EXCEPT ![1] = IdleProc]
    /\ UNCHANGED <<services, endpoints, heatvars, unique>>

NextSequence ==
    \/ RunStarts
    \/ CallGetServiceId
    \/ CallExists
    \/ CallGet
    \/ CallCreate
    \/ CallDelete
    \/ RunExits

SpecSequence == InitKeystone /\ [][NextSequence]_vars

(***************************************************************************)
(* The endpoint module, alone on a catalogue of two services, run with     *)
(* endpoint descriptors that differ from one another in a single field.    *)
(***************************************************************************)
\* <<service_name, region, public_url, internal_url, admin_url>>; the
\* first one leaves both optional URLs out, each of the others differs
\* from it in one field
Descriptors ==
    {<<"glance", "aw1", "https://glance/", None, None>>,
     <<"nova", "aw1", "https://glance/", None, None>>,
     <<"glance", "aw2", "https://glance/", None, None>>,
     <<"glance", "aw1", "https://glance:9292/", None, None>>,
     <<"glance", "aw1", "https://glance/", "https://internal/", None>>,
     <<"glance", "aw1", "https://glance/", None, "https://admin/">>}

TwoServices ==
    {[id |-> 1, name |-> "glance", service_type |-> "image",
      description |-> "Not provided"],
     [id |-> 2, name |-> "nova", service_type |-> "image",
      description |-> "Not provided"]}

\* every set of endpoints with distinct identifiers that the descriptors
\* describe
DescribedCatalogues ==
    UNION {{{[id |-> i,
              service_id |-> (CHOOSE x \in TwoServices :
                                  x.name = f[i][1]).id,
              region |-> f[i][2], publicurl |-> f[i][3],
              internalurl |-> f[i][4], adminurl |-> f[i][5]] : i \in ids} :
               f \in [ids -> Descriptors]} : ids \in SUBSET EndpointIds}

InitMatch ==
    /\ services = TwoServices
    /\ endpoints \in DescribedCatalogues
    /\ hist = <<>>
    /\ operation = None
    /\ pc = "idle"
    /\ existed = <<>>
    /\ result = NoResult
    /\ polls = <<>>
    /\ sleeps = 0
    /\ action = None
    /\ submitted = <<>>
    /\ exit = "none"
    /\ procs = [p \in Procs |-> IdleProc]
    /\ unique = FALSE

\* the log keeps this run and the one before it
LoggedPair(rec) ==
    IF hist # <<>> /\ SameDescriptor(hist[Len(hist)], rec.mod, rec.args)
    THEN <<hist[Len(hist)], rec>>
    ELSE <<rec>>

\* os_keystone_endpoint is run with one of the descriptors, up to its
\* first API call
DescriptorStarts ==
    \E d \in Descriptors, state \in {"present", "absent"},
       check_mode \in BOOLEAN :
        /\ procs[1].pc = "idle"
        /\ procs' = [procs EXCEPT ![1] =
                         Started("endpoint", state, d, check_mode)]
        /\ hist' = LoggedPair(Opened("endpoint", state, d, check_mode))
        /\ UNCHANGED <<services, endpoints, heatvars, unique>>

NextMatch ==
    \/ DescriptorStarts
    \/ CallGetServiceId
    \/ CallExists
    \/ CallGet
    \/ CallCreate
    \/ CallDelete
    \/ RunExits

SpecMatch == InitMatch /\ [][NextMatch]_vars

(***************************************************************************)
(* Two runs at once with one descriptor, their API calls interleaved.      *)
(***************************************************************************)
\* the one descriptor both runs are made with, per module
RaceArgs(mod) ==
    IF mod = "service" THEN <<"glance", "image", "Not provided">>
    ELSE <<"glance", "aw1", "https://glance/", None, None>>

\* one of the two runs starts; a finished run the new one did not overlap
\* with is forgotten
Invoke ==
    \E p \in Procs, mod \in {"service", "endpoint"},
       state \in {"present", "absent"}, check_mode \in BOOLEAN :
        /\ procs[p].pc \in {"idle", "done"}
        /\ procs' = [q \in Procs |->
                       IF q = p
                       THEN Started(mod, state, RaceArgs(mod), check_mode)
                       ELSE IF procs[q].pc = "done" THEN IdleProc
                       ELSE procs[q]]
        /\ UNCHANGED <<services, endpoints>>
        /\ RaceUnchanged

NextRace ==
    \/ Invoke
    \/ CallGetServiceId
    \/ CallExists
    \/ CallGet
    \/ CallCreate
    \/ CallDelete

SpecRace == InitRace /\ [][NextRace]_vars


(***************************************************************************)
(* heat.py: stack_operation(heat, stack_name, operation)                    *)
(***************************************************************************)
Operations == {"CREATE", "DELETE"}

\* what one heat.get(stack_name) can produce: an exception, or a stack
\* with one of these statuses
Raised == "raised"
Statuses == {"CREATE_IN_PROGRESS", "CREATE_COMPLETE", "CREATE_FAILED",
             "DELETE_IN_PROGRESS", "DELETE_COMPLETE", "DELETE_FAILED"}

\* the statuses compared against, with the operation hard-coded
complete_status_create_only(op) == "CREATE_COMPLETE"
failed_status_create_only(op) == "CREATE_FAILED"

\* '%s_COMPLETE' % operation and '%s_FAILED' % operation
complete_status(op) == op \o "_COMPLETE"
failed_status(op) == op \o "_FAILED"

\* the except branch with its test inverted
not_found_result_inverted(existed_list) ==
    IF ~(\E i \in 1..Len(existed_list) : existed_list[i] = "yes")
    THEN [changed |-> PyTrue, failed |-> Missing, output |-> "Stack Deleted"]
    ELSE [changed |-> PyTrue, failed |-> Missing,
          output |-> "Stack Not Found"]

\* the dict built in the except branch
not_found_result(existed_list) ==
    IF \E i \in 1..Len(existed_list) : existed_list[i] = "yes"
    THEN [changed |-> PyTrue, failed |-> Missing, output |-> "Stack Deleted"]
    ELSE [changed |-> PyTrue, failed |-> Missing,
          output |-> "Stack Not Found"]

\* dict(changed=True, output='Stack %s complete' % operation)
complete_result(op) ==
    [changed |-> PyTrue, failed |-> Missing,
     output |-> "Stack " \o op \o " complete"]

\* dict(failed=True, output='Stack %s failed' % operation)
failed_result(op) ==
    [changed |-> Missing, failed |-> PyTrue,
     output |-> "Stack " \o op \o " failed"]

\* the call: existed = [], result = {}, then the first pass of the loop
StackOperation ==
    \E op \in Operations :
        /\ pc \in {"idle", "returned"}
        /\ operation' = op
        /\ existed' = <<>>
        /\ result' = NoResult
        /\ polls' = <<>>
        /\ sleeps' = 0
        /\ pc' = "loop"
        /\ UNCHANGED <<ksvars, mainvars, racevars>>

\* one pass of the while loop in which heat.get() raises
PollRaises ==
    /\ pc = "loop"
    /\ Len(polls) < MaxPolls
    /\ polls' = Append(polls, Raised)
    /\ result' = not_found_result(existed)
    /\ pc' = "returned"
    /\ UNCHANGED <<operation, existed, sleeps, ksvars, mainvars, racevars>>

\* the pass with the elif branch left out: only OP_COMPLETE ends the loop
PollReturns_without_failed ==
    \E status \in Statuses :
        /\ pc = "loop"
        /\ Len(polls) < MaxPolls
        /\ IF complete_status(operation) = status
           THEN /\ polls' = Append(polls, status)
                /\ existed' = Append(existed, "yes")
                /\ result' = complete_result(operation)
                /\ pc' = "returned"
                /\ UNCHANGED sleeps
           ELSE IF Len(polls) + 1 < MaxPolls
           THEN /\ polls' = Append(polls, status)
                /\ existed' = Append(existed, "yes")
                /\ sleeps' = sleeps + 1
                /\ UNCHANGED <<result, pc>>
           ELSE /\ polls' = Append(Tail(polls), status)
                /\ UNCHANGED <<existed, sleeps, result, pc>>
        /\ UNCHANGED <<operation, ksvars, mainvars, racevars>>

\* one pass of the while loop in which heat.get() returns a stack; the
\* loop has no bound, so once MaxPolls - 1 pending lookups are kept the
\* oldest one is dropped for the next
PollReturns ==
    \E status \in Statuses :
        /\ pc = "loop"
        /\ Len(polls) < MaxPolls
        /\ IF complete_status(operation) = status
           THEN /\ polls' = Append(polls, status)
                /\ existed' = Append(existed, "yes")
                /\ result' = complete_result(operation)
                /\ pc' = "returned"
                /\ UNCHANGED sleeps
           ELSE IF failed_status(operation) = status
           THEN /\ polls' = Append(polls, status)
                /\ existed' = Append(existed, "yes")
                /\ result' = failed_result(operation)
                /\ pc' = "returned"
                /\ UNCHANGED sleeps
           ELSE IF Len(polls) + 1 < MaxPolls
           THEN /\ polls' = Append(polls, status)
                /\ existed' = Append(existed, "yes")
                /\ sleeps' = sleeps + 1
                /\ UNCHANGED <<result, pc>>
           ELSE /\ polls' = Append(Tail(polls), status)
                /\ UNCHANGED <<existed, sleeps, result, pc>>
        /\ UNCHANGED <<operation, ksvars, mainvars, racevars>>

NextHeat ==
    \/ StackOperation
    \/ PollRaises
    \/ PollReturns

SpecHeat == Init /\ [][NextHeat]_vars

(***************************************************************************)
(* heat.py: main()                                                          *)
(***************************************************************************)
Actions == {"create", "delete"}

\* a stack call issued to the remote API and whether the remote took it
Submission(call, accepted) == [call |-> call, accepted |-> accepted]

\* how far main() gets before the poll loop: the calls it issued, the
\* exception that ended it ("none" when it goes on), the operation set
Submitted(calls, exc, op) == [calls |-> calls, exc |-> exc, operation |-> op]

\* the create branch: building the arguments of heat.stacks.create reads
\* stack_policy_body, a name that is defined nowhere, so the try block
\* raises NameError before the call is made
main_create == Submitted(<<>>, "NameError", None)

\* the delete branch with the call wrapped in a try that ignores a failure
main_delete_ignoring_failure(accept) ==
    Submitted(<<Submission("delete", accept)>>, "none", "DELETE")

\* the delete branch: heat.stacks.delete(stack_name); operation = 'DELETE'
main_delete(accept) ==
    IF accept
    THEN Submitted(<<Submission("delete", TRUE)>>, "none", "DELETE")
    ELSE Submitted(<<Submission("delete", FALSE)>>, "Rejected", None)

\* ksclient.Client(...) raising: the exception leaves main() before the
\* action is looked at, and no stack call is issued
keystone_failed == Submitted(<<>>, "Unauthorized", None)

\* main() with action=create, up to the exception leaving main() or to
\* module.fail_json(msg=err)
MainCreate ==
    \E authenticated \in BOOLEAN :
        LET sub == IF authenticated THEN main_create ELSE keystone_failed
        IN  /\ pc \in {"idle", "exited"}
            /\ action' = "create"
            /\ submitted' = sub.calls
            /\ operation' = sub.operation
            /\ existed' = <<>>
            /\ result' = NoResult
            /\ polls' = <<>>
            /\ sleeps' = 0
            /\ pc' = "exited"
            /\ exit' = IF authenticated THEN "fail_json" ELSE "exception"
            /\ UNCHANGED <<ksvars, racevars>>

\* main() with action=delete, up to the exception leaving main() or to the
\* call of stack_operation
MainDelete ==
    \E authenticated \in BOOLEAN, accept \in BOOLEAN :
        LET sub == IF authenticated THEN main_delete(accept)
                   ELSE keystone_failed
        IN  /\ pc \in {"idle", "exited"}
            /\ action' = "delete"
            /\ submitted' = sub.calls
            /\ operation' = sub.operation
            /\ existed' = <<>>
            /\ result' = NoResult
            /\ polls' = <<>>
            /\ sleeps' = 0
            /\ IF sub.exc = "none"
               THEN pc' = "loop" /\ exit' = "none"
               ELSE pc' = "exited" /\ exit' = "exception"
            /\ UNCHANGED <<ksvars, racevars>>

\* module.exit_json(**result) after stack_operation returned
MainExit ==
    /\ pc = "returned"
    /\ action # None
    /\ pc' = "exited"
    /\ exit' = "exit_json"
    /\ UNCHANGED <<operation, existed, result, polls, sleeps, action,
                   submitted, ksvars, racevars>>

NextHeatMain ==
    \/ MainCreate
    \/ MainDelete
    \/ PollRaises
    \/ PollReturns
    \/ MainExit

SpecHeatMain == Init /\ [][NextHeatMain]_vars

\* the poll loop under the assumption that the remote, looked up again and
\* again, eventually raises or shows the awaited COMPLETE or FAILED status
TerminalObservation == PollRaises \/ (PollReturns /\ pc' = "returned")

SpecHeatLive ==
    /\ Init
    /\ [][NextHeat]_vars
    /\ WF_vars(PollRaises \/ PollReturns)
    /\ SF_vars(TerminalObservation)


(***************************************************************************)
(* Reading a run: what its lookups found, what it issued and returned.     *)
(***************************************************************************)
CallsTo(r, apis) == {k \in DOMAIN r.calls : r.calls[k].api \in apis}
CreateCalls(r) == CallsTo(r, {"services.create", "endpoints.create"})
DeleteCalls(r) == CallsTo(r, {"services.delete", "endpoints.delete"})
ListCalls(r) == CallsTo(r, {"services.list", "endpoints.list"})

Returned(r, changed, id) ==
    r.exc = "none" /\ r.changed = changed /\ r.id = id

\* main() got as far as calling the ensure_* function, and the function
\* has returned or raised
Finished(pr) == pr.pc = "done" /\ pr.exc # "AuthError"

\* the descriptor is defined: an endpoint descriptor carries the id of the
\* one service that was listed with the given name
Resolved(pr) == pr.mod = "service" \/ Cardinality(pr.named) = 1

\* the run made n lookups of its resource and each found k matches
Found(pr, n, k) ==
    /\ Len(pr.found) = n
    /\ \A j \in DOMAIN pr.found : Cardinality(pr.found[j]) = k

\* the create call the module is expected to issue for the descriptor
Expected(pr) ==
    IF pr.mod = "service"
    THEN [api |-> "services.create", id |-> NoneId, attrs |-> pr.args]
    ELSE [api |-> "endpoints.create", id |-> CHOOSE i \in pr.named : TRUE,
          attrs |-> <<pr.args[2], pr.args[3], pr.args[4], pr.args[5]>>]

(***************************************************************************)
(* C1. With zero matches in the remote list, ensure_present without check  *)
(* mode issues exactly one create call, carrying the supplied attributes,  *)
(* and (the remote taking it) returns changed=True with the identifier of  *)
(* the resource created; in check mode it issues no create call and        *)
(* returns changed=True with identifier None.                               *)
(***************************************************************************)
C1_Case(pr) ==
    Finished(pr) /\ pr.state = "present" /\ Resolved(pr) /\ Found(pr, 1, 0)

C1_PresentOnZeroMatches ==
    \A p \in Procs :
        LET pr == procs[p]
        IN  C1_Case(pr) =>
                IF pr.check_mode
                THEN /\ CreateCalls(pr) = {}
                     /\ Returned(pr, PyTrue, NoneId)
                     /\ pr.json = exit_json(PyTrue, NoneId)
                ELSE /\ Cardinality(CreateCalls(pr)) = 1
                     /\ \A k \in CreateCalls(pr) : pr.calls[k] = Expected(pr)
                     /\ DeleteCalls(pr) = {}
                     /\ pr.exc \in {"none", "Rejected", "Conflict"}
                     /\ pr.exc = "none" =>
                            /\ pr.changed = PyTrue
                            /\ pr.id # NoneId
                            /\ pr.id = pr.made
                            /\ pr.json = exit_json(PyTrue, pr.made)

\* a real run of the endpoint module that listed zero matches, next to an
\* endpoint of another service, and created the endpoint of a service
\* whose identifier is not the one the endpoint got
C1_Witness ==
    /\ C1_Case(procs[1]) /\ procs[1].mod = "endpoint"
    /\ ~procs[1].check_mode /\ procs[1].exc = "none"
    /\ procs[1].id \in IdsOf(endpoints)
    /\ procs[1].id # procs[1].service_id
    /\ Cardinality(endpoints) = 2

(***************************************************************************)
(* C2. With exactly one match in the remote list, ensure_present (check    *)
(* mode or not) returns changed=False and the identifier of the existing   *)
(* resource, and issues no create call.                                     *)
(***************************************************************************)
C2_Case(pr) ==
    Finished(pr) /\ pr.state = "present" /\ Resolved(pr) /\ Found(pr, 1, 1)

C2_PresentOnOneMatch ==
    \A p \in Procs :
        LET pr == procs[p]
        IN  C2_Case(pr) =>
                /\ pr.exc = "none"
                /\ pr.changed = PyFalse
                /\ {pr.id} = pr.found[1]
                /\ CreateCalls(pr) = {}
                /\ DeleteCalls(pr) = {}
                /\ pr.json = exit_json(PyFalse, pr.id)

\* a dry run of the service module that found the one service of the name,
\* the second of two services
C2_Witness ==
    /\ C2_Case(procs[1]) /\ procs[1].mod = "service"
    /\ procs[1].check_mode
    /\ procs[1].changed = PyFalse /\ procs[1].id = 2
    /\ Cardinality(services) = 2

(***************************************************************************)
(* C3. With exactly one match in the remote list and check_mode=False,     *)
(* ensure_absent issues exactly one delete call, for the identifier of the *)
(* match, and (the remote taking it) returns changed=True, so that the     *)
(* module result reports changed=True.  The code falls off the end of the  *)
(* function after the delete and returns None.                              *)
(***************************************************************************)
C3_Case(pr) ==
    /\ Finished(pr) /\ pr.state = "absent" /\ ~pr.check_mode
    /\ Resolved(pr) /\ Found(pr, 2, 1)

C3_AbsentOnOneMatchReturnsTrue ==
    \A p \in Procs :
        LET pr == procs[p]
        IN  (C3_Case(pr) /\ pr.exc \notin {"Rejected", "NotFound"}) =>
                /\ Cardinality(DeleteCalls(pr)) = 1
                /\ \A k \in DeleteCalls(pr) : {pr.calls[k].id} = pr.found[2]
                /\ pr.exc = "none"
                /\ pr.changed = PyTrue
                /\ pr.json.changed = PyTrue

(***************************************************************************)
(* C4. With two or more matches in the remote list, ensure_present and     *)
(* ensure_absent, in check mode or not, end with the ambiguity error and   *)
(* issue no create and no delete call.  In check mode ensure_absent        *)
(* returns True before it counts the matches.                               *)
(***************************************************************************)
C4_Case(pr) ==
    /\ Finished(pr) /\ Resolved(pr)
    /\ pr.found # <<>>
    /\ \A j \in DOMAIN pr.found : Cardinality(pr.found[j]) >= 2

C4_AmbiguityIsAnError ==
    \A p \in Procs :
        LET pr == procs[p]
        IN  C4_Case(pr) =>
                /\ pr.exc = "ValueError"
                /\ CreateCalls(pr) = {}
                /\ DeleteCalls(pr) = {}

(***************************************************************************)
(* C5. In check mode, whatever the remote holds, ensure_present and        *)
(* ensure_absent issue no create and no delete call, no API call of the    *)
(* run changes the remote, and the changed value is decided after a list   *)
(* lookup.                                                                  *)
(***************************************************************************)
C5_NoMutatingCall ==
    \A p \in Procs :
        LET pr == procs[p]
        IN  pr.check_mode =>
                /\ pr.pc \notin {"create", "delete"}
                /\ CreateCalls(pr) = {}
                /\ DeleteCalls(pr) = {}
                /\ pr.made = NoneId
                /\ Finished(pr) => /\ ListCalls(pr) # {}
                                   /\ 1 \in ListCalls(pr)
                /\ (Finished(pr) /\ pr.exc = "none") => pr.found # <<>>

\* a step of a run in check mode
C5_CheckModeStep ==
    \E p \in Procs :
        /\ procs[p].check_mode
        /\ procs[p].pc \notin {"idle", "done"}
        /\ procs'[p] # procs[p]

C5_CheckModeMutatesNothing ==
    /\ []C5_NoMutatingCall
    /\ [][C5_CheckModeStep => UNCHANGED <<services, endpoints>>]_vars

\* a dry run of ensure_absent that found its one match and reported the
\* change it would make, with the match still in the catalogue
C5_Witness ==
    /\ Finished(procs[1]) /\ procs[1].check_mode
    /\ procs[1].state = "absent" /\ Resolved(procs[1])
    /\ Found(procs[1], 1, 1)
    /\ procs[1].changed = PyTrue
    /\ procs[1].found[1] \subseteq IdsOf(RemoteList(procs[1].mod))

(***************************************************************************)
(* C11, as claimed: every fatal error of the service and the endpoint      *)
(* module (ambiguous match, missing service, rejected create or delete,    *)
(* failed authentication) yields a module result with failed=true and a    *)
(* message, in check mode too, and never a changed=true result.            *)
(***************************************************************************)
C11_ErrorsAlwaysFail ==
    \A p \in Procs :
        LET pr == procs[p]
        IN  (pr.pc = "done" /\ pr.exc # "none") =>
                /\ pr.json.failed
                /\ pr.json.msg # Missing
                /\ pr.json.changed # PyTrue

(***************************************************************************)
(* C11, amended: every fatal error yields a module result that carries     *)
(* the message; without check mode the result is failed=true and has no    *)
(* changed value, in check mode it is changed=true and not failed.         *)
(***************************************************************************)
C11_ErrorsFailOutsideCheckMode ==
    \A p \in Procs :
        LET pr == procs[p]
        IN  /\ (pr.pc = "done" /\ pr.exc # "none") =>
                /\ pr.json.msg = pr.exc
                /\ pr.json.id = NoneId
                /\ IF pr.check_mode
                   THEN ~pr.json.failed /\ pr.json.changed = PyTrue
                   ELSE pr.json.failed /\ pr.json.changed = Missing
            /\ (pr.pc = "done" /\ pr.exc = "none") =>
                   ~pr.json.failed /\ pr.json.msg = Missing

\* a dry run of the endpoint module on a service name nothing carries:
\* the KeyError is reported as changed=true
C11_Witness ==
    /\ procs[1].pc = "done" /\ procs[1].mod = "endpoint"
    /\ procs[1].exc = "KeyError" /\ procs[1].check_mode
    /\ procs[1].json.changed = PyTrue /\ ~procs[1].json.failed
    /\ procs[1].json.msg = "KeyError"

(***************************************************************************)
(* C13. With zero matches in the remote list, ensure_absent returns        *)
(* changed=False and issues no delete call, in check mode and without.     *)
(***************************************************************************)
C13_Case(pr) ==
    Finished(pr) /\ pr.state = "absent" /\ Resolved(pr) /\ Found(pr, 1, 0)

C13_AbsentOnZeroMatches ==
    \A p \in Procs :
        LET pr == procs[p]
        IN  /\ C13_Case(pr) =>
                /\ Returned(pr, PyFalse, NoneId)
                /\ DeleteCalls(pr) = {}
                /\ CreateCalls(pr) = {}
                /\ pr.json = exit_json(PyFalse, NoneId)
            /\ (pr.state = "absent" /\ pr.found # <<>>
                  /\ pr.found[1] = {}) => pr.pc = "done"

\* a real ensure_endpoint_absent for an endpoint the list did not hold,
\* while it held an endpoint of another service
C13_Witness ==
    /\ C13_Case(procs[1]) /\ procs[1].mod = "endpoint"
    /\ ~procs[1].check_mode
    /\ endpoints # {}
    /\ procs[1].changed = PyFalse

(***************************************************************************)
(* C19. In the endpoint module, a service_name that no service or more     *)
(* than one service carries ends ensure_endpoint_exists and                *)
(* ensure_endpoint_absent with an error before any endpoint lookup,        *)
(* create or delete; ensure_endpoint_absent does not return False.         *)
(***************************************************************************)
C19_Case(pr) ==
    /\ Finished(pr) /\ pr.mod = "endpoint"
    /\ Cardinality(pr.named) # 1

C19_ServiceMustResolve ==
    \A p \in Procs :
        LET pr == procs[p]
        IN  /\ C19_Case(pr) =>
                /\ pr.exc = IF pr.named = {} THEN "KeyError"
                            ELSE "ValueError"
                /\ pr.calls = <<ServicesList>>
                /\ pr.found = <<>>
                /\ pr.changed # PyFalse
            /\ (pr.mod = "endpoint" /\ pr.pc \notin {"idle", "service"}
                  /\ Cardinality(pr.named) # 1) => pr.pc = "done"

\* ensure_endpoint_absent on a name that two services carry
C19_Witness ==
    /\ C19_Case(procs[1]) /\ procs[1].state = "absent"
    /\ procs[1].exc = "ValueError"
    /\ Cardinality(procs[1].named) = 2

(***************************************************************************)
(* C16. Every delete call of ensure_absent, service or endpoint, carries   *)
(* the identifier of the resource that was the one and only match in the   *)
(* list result the run read just before the call; with zero or several     *)
(* matches in that list result no delete call is issued, also when the     *)
(* remote changed after the existence check.                                *)
(***************************************************************************)
C16_OneMatch(pr, id) ==
    /\ pr.state = "absent"
    /\ ~pr.check_mode
    /\ Len(pr.found) = 2
    /\ pr.found[2] = {id}

C16_DeleteOnlyTheOneMatch ==
    \A p \in Procs :
        LET pr == procs[p]
        IN  /\ \A k \in DeleteCalls(pr) : C16_OneMatch(pr, pr.calls[k].id)
            /\ Cardinality(DeleteCalls(pr)) <= 1
            /\ pr.pc = "delete" => C16_OneMatch(pr, pr.target)
            /\ (pr.found # <<>>
                  /\ Cardinality(pr.found[Len(pr.found)]) # 1) =>
                   /\ DeleteCalls(pr) = {}
                   /\ pr.pc # "delete"

\* an ensure_endpoint_absent run whose existence check listed two matches
\* and whose second lookup listed one, another user having deleted the
\* other in between: the run issued the delete call for the one left
C16_Witness ==
    /\ procs[1].pc = "done"
    /\ procs[1].mod = "endpoint" /\ procs[1].state = "absent"
    /\ Len(procs[1].found) = 2
    /\ Cardinality(procs[1].found[1]) = 2
    /\ Cardinality(procs[1].found[2]) = 1
    /\ DeleteCalls(procs[1]) # {}
    /\ procs[1].exc = "none"

(***************************************************************************)
(* Reading the log of runs made one after another: what a run found and    *)
(* left, stated from the catalogue it started on.                           *)
(***************************************************************************)
\* the catalogue run i of the log left behind
PostServices(i) ==
    IF i < Len(hist) THEN hist[i + 1].pre_services ELSE services
PostEndpoints(i) ==
    IF i < Len(hist) THEN hist[i + 1].pre_endpoints ELSE endpoints

\* the services carrying the name the run was given
NamedServices(r) == {x \in r.pre_services : x.name = r.args[1]}

\* the descriptor is defined: an endpoint descriptor carries the id of the
\* one service that has the given name
Resolves(r) == r.mod = "service" \/ Cardinality(NamedServices(r)) = 1

TheServiceId(r) == (CHOOSE x \in NamedServices(r) : TRUE).id

\* identifiers of the remote resources that match the descriptor
MatchIds(r) ==
    IF r.mod = "service"
    THEN {x.id : x \in NamedServices(r)}
    ELSE {e.id : e \in {e \in r.pre_endpoints :
                   /\ e.service_id = TheServiceId(r)
                   /\ e.region = r.args[2]
                   /\ e.publicurl = r.args[3]
                   /\ e.internalurl = r.args[4]
                   /\ e.adminurl = r.args[5]}}

\* the create call the module is expected to issue for the descriptor
ExpectedCreate(r) ==
    IF r.mod = "service"
    THEN [api |-> "services.create", id |-> NoneId, attrs |-> r.args]
    ELSE [api |-> "endpoints.create", id |-> TheServiceId(r),
          attrs |-> <<r.args[2], r.args[3], r.args[4], r.args[5]>>]

\* run i left the catalogue as it was, but for one new resource that has
\* identifier id and the attributes of the descriptor
CreatedExactly(i, id) ==
    LET r == hist[i]
    IN  IF r.mod = "service"
        THEN /\ PostEndpoints(i) = r.pre_endpoints
             /\ id \notin IdsOf(r.pre_services)
             /\ PostServices(i) = r.pre_services \cup
                    {[id |-> id, name |-> r.args[1],
                      service_type |-> r.args[2],
                      description |-> r.args[3]]}
        ELSE /\ PostServices(i) = r.pre_services
             /\ id \notin IdsOf(r.pre_endpoints)
             /\ PostEndpoints(i) = r.pre_endpoints \cup
                    {[id |-> id, service_id |-> TheServiceId(r),
                      region |-> r.args[2], publicurl |-> r.args[3],
                      internalurl |-> r.args[4], adminurl |-> r.args[5]]}

Untouched(i) ==
    /\ PostServices(i) = hist[i].pre_services
    /\ PostEndpoints(i) = hist[i].pre_endpoints

\* the run is over
Ran(r) == r.closed

(***************************************************************************)
(* C6. From zero matches and with no other actor in between, two           *)
(* ensure_present runs without check mode and with one descriptor return   *)
(* changed=True and then changed=False with the same identifier, and       *)
(* issue one create call between them.                                      *)
(***************************************************************************)
C6_Case(i) ==
    /\ i + 1 <= Len(hist)
    /\ Ran(hist[i]) /\ Ran(hist[i + 1])
    /\ hist[i].state = "present" /\ ~hist[i].check_mode
    /\ hist[i + 1].state = "present" /\ ~hist[i + 1].check_mode
    /\ Resolves(hist[i]) /\ MatchIds(hist[i]) = {}
    /\ hist[i].exc # "Rejected"

C6_PresentTwice ==
    \A i \in DOMAIN hist :
        C6_Case(i) =>
            /\ Returned(hist[i], PyTrue, hist[i].id)
            /\ Returned(hist[i + 1], PyFalse, hist[i].id)
            /\ hist[i].id # NoneId
            /\ CreatedExactly(i, hist[i].id)
            /\ Untouched(i + 1)
            /\ Cardinality(CreateCalls(hist[i])) +
                   Cardinality(CreateCalls(hist[i + 1])) = 1

\* the two runs of the endpoint module
C6_Witness ==
    /\ Len(hist) = 2
    /\ C6_Case(1)
    /\ hist[1].mod = "endpoint"
    /\ hist[2].changed = PyFalse
    /\ hist[2].id = hist[1].id

(***************************************************************************)
(* C18. An endpoint is a match only when its service id, region, public    *)
(* URL, internal URL and admin URL all equal the supplied values, an       *)
(* optional URL left out being compared as None.  With a descriptor that   *)
(* differs from every existing endpoint in at least one field,             *)
(* ensure_present creates a new endpoint and ensure_absent deletes         *)
(* nothing; an identifier the module returns or deletes is the one of an   *)
(* endpoint equal in all five fields.                                       *)
(***************************************************************************)
FieldsOf(e) ==
    <<e.service_id, e.region, e.publicurl, e.internalurl, e.adminurl>>
Supplied(r) ==
    <<TheServiceId(r), r.args[2], r.args[3], r.args[4], r.args[5]>>
DifferingFields(e, r) == {f \in 1..5 : FieldsOf(e)[f] # Supplied(r)[f]}

C18_Case(r) ==
    /\ Ran(r) /\ r.mod = "endpoint" /\ Resolves(r)
    /\ r.pre_endpoints # {}
    /\ \A e \in r.pre_endpoints : DifferingFields(e, r) # {}

C18_MatchIsAllFiveFields ==
    \A i \in DOMAIN hist :
        LET r == hist[i]
        IN  /\ (C18_Case(r) /\ r.state = "present" /\ ~r.check_mode) =>
                /\ Cardinality(CreateCalls(r)) = 1
                /\ \A k \in CreateCalls(r) : r.calls[k] = ExpectedCreate(r)
                /\ r.exc \in {"none", "Rejected"}
                /\ r.exc = "none" =>
                       r.changed = PyTrue /\ CreatedExactly(i, r.id)
            /\ (C18_Case(r) /\ r.state = "present" /\ r.check_mode) =>
                Returned(r, PyTrue, NoneId) /\ Untouched(i)
            /\ (C18_Case(r) /\ r.state = "absent") =>
                /\ Returned(r, PyFalse, NoneId)
                /\ DeleteCalls(r) = {}
                /\ Untouched(i)
            /\ (Ran(r) /\ r.mod = "endpoint" /\ Resolves(r)) =>
                /\ \A k \in DeleteCalls(r) :
                       \E e \in r.pre_endpoints :
                           e.id = r.calls[k].id /\ DifferingFields(e, r) = {}
                /\ (r.state = "present" /\ r.exc = "none"
                      /\ r.changed = PyFalse) =>
                       \E e \in r.pre_endpoints :
                           e.id = r.id /\ DifferingFields(e, r) = {}

\* the catalogue held one endpoint that differs from the descriptor in the
\* admin URL alone: ensure_endpoint_absent deleted nothing and
\* ensure_endpoint_exists then created a second endpoint
C18_Witness ==
    /\ Len(hist) = 2
    /\ C18_Case(hist[1]) /\ hist[1].state = "absent"
    /\ ~hist[1].check_mode
    /\ \E e \in hist[1].pre_endpoints : DifferingFields(e, hist[1]) = {5}
    /\ C18_Case(hist[2]) /\ hist[2].state = "present"
    /\ hist[2].exc = "none" /\ hist[2].changed = PyTrue
    /\ Cardinality(endpoints) = Cardinality(hist[1].pre_endpoints) + 1

(***************************************************************************)
(* C20. From zero matches and with no other actor in between, the runs     *)
(* ensure_present, ensure_absent, ensure_absent without check mode and     *)
(* with one descriptor, the remote accepting the create and the delete,    *)
(* leave the catalogue exactly as it was before the first: the first       *)
(* ensure_absent issues one delete call, for the identifier that           *)
(* ensure_present created, and the second returns changed=False and        *)
(* issues no delete call.                                                   *)
(***************************************************************************)
C20_Case(i) ==
    /\ i + 2 <= Len(hist)
    /\ \A j \in {i, i + 1, i + 2} : Ran(hist[j]) /\ ~hist[j].check_mode
    /\ hist[i].state = "present"
    /\ hist[i + 1].state = "absent"
    /\ hist[i + 2].state = "absent"
    /\ Resolves(hist[i]) /\ MatchIds(hist[i]) = {}
    /\ hist[i].exc = "none"
    /\ hist[i + 1].exc = "none"

C20_PresentAbsentAbsent ==
    \A i \in DOMAIN hist :
        C20_Case(i) =>
            /\ hist[i].id # NoneId
            /\ CreatedExactly(i, hist[i].id)
            /\ MatchIds(hist[i + 1]) = {hist[i].id}
            /\ Cardinality(DeleteCalls(hist[i + 1])) = 1
            /\ \A k \in DeleteCalls(hist[i + 1]) :
                   hist[i + 1].calls[k].id = hist[i].id
            /\ hist[i + 2].pre_services = hist[i].pre_services
            /\ hist[i + 2].pre_endpoints = hist[i].pre_endpoints
            /\ MatchIds(hist[i + 2]) = {}
            /\ Returned(hist[i + 2], PyFalse, NoneId)
            /\ DeleteCalls(hist[i + 2]) = {}
            /\ PostServices(i + 2) = hist[i].pre_services
            /\ PostEndpoints(i + 2) = hist[i].pre_endpoints

\* the three runs of the endpoint module on a catalogue that holds an
\* endpoint of another service
C20_Witness ==
    /\ Len(hist) = 3
    /\ C20_Case(1)
    /\ hist[1].mod = "endpoint"
    /\ hist[1].pre_endpoints # {}
    /\ endpoints = hist[1].pre_endpoints
    /\ hist[3].changed = PyFalse

(***************************************************************************)
(* Reading two concurrent runs.                                             *)
(***************************************************************************)
\* both ran ensure_present of one module without check mode, overlapping
\* in time, and both found zero matches in their lookup
InterleavedPresent(p, q) ==
    /\ p # q
    /\ \A n \in {p, q} :
           /\ procs[n].pc = "done"
           /\ procs[n].state = "present"
           /\ ~procs[n].check_mode
           /\ Found(procs[n], 1, 0)
    /\ procs[p].mod = procs[q].mod
    /\ procs[p].service_id = procs[q].service_id

\* identifiers of the resources the remote now holds with the attributes
\* the run asked for
RemoteMatches(pr) == Matching(pr, RemoteList(pr.mod))

\* a run made alone on the present catalogue, as far as its first create
\* or delete call
RECURSIVE Alone(_)
Alone(pr) ==
    IF pr.pc \in {"done", "create", "delete"} THEN pr
    ELSE Alone(module_main(pr,
             Answer("none", IF pr.pc = "service" THEN services
                            ELSE RemoteList(pr.mod))))

\* what a later run of the module would raise on the present catalogue
LaterRun(mod, state, check_mode) ==
    Alone(Started(mod, state, RaceArgs(mod), check_mode))

\* on a remote that enforces uniqueness, and rejects for no other reason:
\* one create was taken, one resource matches, one run returned
\* changed=True with its identifier
C15_OnUniqueRemote ==
    \A p, q \in Procs :
        (/\ unique
         /\ InterleavedPresent(p, q)
         /\ \A n \in {p, q} : procs[n].exc \in {"none", "Conflict"}) =>
            /\ \A n \in {p, q} : Cardinality(CreateCalls(procs[n])) = 1
            /\ Cardinality(RemoteMatches(procs[p])) = 1
            /\ \E n \in {p, q} :
                   /\ procs[n].exc = "none"
                   /\ procs[n].changed = PyTrue
                   /\ {procs[n].id} = RemoteMatches(procs[p])
                   /\ \A o \in {p, q} \ {n} : procs[o].exc = "Conflict"

\* on a remote that does not: both creates taken, two resources match
C15_TwoMatches(p, q) ==
    /\ ~unique
    /\ InterleavedPresent(p, q)
    /\ \A n \in {p, q} : procs[n].exc = "none"

C15_OnOpenRemote ==
    \A p, q \in Procs :
        C15_TwoMatches(p, q) =>
            /\ \A n \in {p, q} : procs[n].changed = PyTrue
            /\ procs[p].id # procs[q].id
            /\ RemoteMatches(procs[p]) = {procs[p].id, procs[q].id}

(***************************************************************************)
(* C15. Two ensure_present runs without check mode, for one descriptor,    *)
(* interleaved on zero matches, both pass the lookup and both issue a      *)
(* create call.  On a remote that enforces uniqueness exactly one          *)
(* matching resource exists afterwards and at most one run returned        *)
(* changed=True with an identifier; on a remote that does not, two         *)
(* matching resources exist, and then every later ensure_present and       *)
(* ensure_absent ends on the ambiguity error.  In check mode               *)
(* ensure_absent returns True on the two matches instead.                  *)
(***************************************************************************)
C15_InterleavedPresent ==
    /\ C15_OnUniqueRemote
    /\ C15_OnOpenRemote
    /\ \A p, q \in Procs :
           C15_TwoMatches(p, q) =>
               \A state \in {"present", "absent"}, check_mode \in BOOLEAN :
                   LaterRun(procs[p].mod, state, check_mode).exc
                       = "ValueError"

(***************************************************************************)
(* Reading the poll loop.                                                   *)
(***************************************************************************)
CompleteOf(op) ==
    IF op = "CREATE" THEN "CREATE_COMPLETE" ELSE "DELETE_COMPLETE"
FailedOf(op) ==
    IF op = "CREATE" THEN "CREATE_FAILED" ELSE "DELETE_FAILED"

\* a lookup that found the stack in a status that ends nothing
Pending(op, p) == p # Raised /\ p # CompleteOf(op) /\ p # FailedOf(op)

\* every lookup before the latest one found the stack still pending
PendingBeforeLast ==
    \A k \in 1..(Len(polls) - 1) : Pending(operation, polls[k])

LastPoll == polls[Len(polls)]

(***************************************************************************)
(* C7, as claimed: when the lookup raises, the operation chooses the       *)
(* outcome: DELETE ends with 'Stack Deleted', CREATE with 'Stack Not       *)
(* Found', whatever the earlier polls were.                                 *)
(***************************************************************************)
C7_OutcomeByOperation ==
    (pc = "returned" /\ polls # <<>> /\ LastPoll = Raised) =>
        result.output = IF operation = "DELETE" THEN "Stack Deleted"
                        ELSE "Stack Not Found"

(***************************************************************************)
(* C7, amended: when the lookup raises, the earlier polls choose the       *)
(* outcome, for either operation: 'Stack Deleted' when an earlier lookup   *)
(* of this loop had found the stack, 'Stack Not Found' when the very       *)
(* first lookup raises; both outcomes carry changed=True and no failed.    *)
(***************************************************************************)
C7_OutcomeByPollHistory ==
    (pc = "returned" /\ polls # <<>> /\ LastPoll = Raised) =>
        /\ result.output = IF Len(polls) > 1 THEN "Stack Deleted"
                           ELSE "Stack Not Found"
        /\ result.changed = PyTrue
        /\ result.failed = Missing

\* a DELETE whose first lookup raised, and which did not end with
\* 'Stack Deleted'
C7_Witness ==
    /\ pc = "returned" /\ operation = "DELETE"
    /\ polls = <<Raised>>
    /\ result.output = "Stack Not Found"

(***************************************************************************)
(* C8. A CREATE whose very first lookup raises ends with a failure tagged  *)
(* 'Stack Not Found': the result is marked failed and is not a             *)
(* changed=True success.  The code builds dict(changed=True,               *)
(* output='Stack Not Found').                                               *)
(***************************************************************************)
C8_CreateNotFoundIsFailure ==
    (pc = "returned" /\ operation = "CREATE" /\ polls = <<Raised>>) =>
        /\ result.output = "Stack Not Found"
        /\ result.failed = PyTrue
        /\ result.changed # PyTrue

(***************************************************************************)
(* C9. n lookups that find the stack pending and then one that finds       *)
(* OP_COMPLETE: the loop slept n times, made n+1 lookups and returned      *)
(* changed=True with 'Stack OP complete'; while the stack is pending the   *)
(* loop has slept once per lookup.                                          *)
(***************************************************************************)
C9_SleepsThenComplete ==
    /\ (pc = "loop" /\ \A k \in 1..Len(polls) : Pending(operation, polls[k]))
           => sleeps = Len(polls)
    /\ (polls # <<>> /\ LastPoll = CompleteOf(operation) /\ PendingBeforeLast)
           => /\ pc = "returned"
              /\ sleeps = Len(polls) - 1
              /\ result.changed = PyTrue
              /\ result.failed = Missing
              /\ result.output = IF operation = "CREATE"
                                 THEN "Stack CREATE complete"
                                 ELSE "Stack DELETE complete"

\* two pending lookups, one of them a terminal status of the other
\* operation, then CREATE_COMPLETE
C9_Witness ==
    /\ operation = "CREATE" /\ pc = "returned"
    /\ polls = <<"CREATE_IN_PROGRESS", "DELETE_COMPLETE", "CREATE_COMPLETE">>
    /\ sleeps = 2

(***************************************************************************)
(* C10. The first lookup that finds OP_FAILED ends the loop with           *)
(* failed=True; no lookup and no sleep follows it.                          *)
(***************************************************************************)
C10_FailedEndsTheLoop ==
    \A k \in 1..Len(polls) :
        polls[k] = FailedOf(operation) =>
            /\ k = Len(polls)
            /\ pc = "returned"
            /\ sleeps = k - 1
            /\ result.failed = PyTrue
            /\ result.changed = Missing
            /\ result.output = IF operation = "CREATE"
                               THEN "Stack CREATE failed"
                               ELSE "Stack DELETE failed"

C10_Witness ==
    /\ operation = "DELETE" /\ pc = "returned"
    /\ polls = <<"CREATE_FAILED", "DELETE_FAILED">>
    /\ result.failed = PyTrue
    /\ sleeps = 1


(***************************************************************************)
(* C12. In the stack module, a create or delete call that the remote       *)
(* rejects ends the invocation in failure: no status lookup is made and    *)
(* the call is not issued a second time.                                    *)
(***************************************************************************)
C12_RejectedSubmissionEndsMain ==
    /\ Len(submitted) <= 1
    /\ \A k \in DOMAIN submitted :
           ~submitted[k].accepted =>
               /\ pc = "exited"
               /\ exit \in {"fail_json", "exception"}
               /\ polls = <<>>
               /\ existed = <<>>
               /\ sleeps = 0
               /\ result = NoResult

\* a delete call the remote rejected
C12_Witness ==
    /\ action = "delete"
    /\ submitted = <<Submission("delete", FALSE)>>
    /\ exit = "exception"

\* ksclient.Client(...) returned: main() got as far as the action
C14_Authenticated == ~(exit = "exception" /\ submitted = <<>>)

(***************************************************************************)
(* C14. In the stack module, action=create issues the create call exactly  *)
(* once and, once the remote accepted it, polls with operation CREATE;     *)
(* action=delete does the same with the delete call and operation DELETE;  *)
(* no status lookup precedes the submission; all of it once keystone       *)
(* authentication succeeded.  The code issues no create call at all.       *)
(***************************************************************************)
C14_SubmitsOnceThenPolls ==
    (action # None /\ C14_Authenticated) =>
        /\ Len(submitted) = 1
        /\ submitted[1].call = action
        /\ submitted[1].accepted =>
               operation = IF action = "create" THEN "CREATE" ELSE "DELETE"
        /\ polls # <<>> => submitted[1].accepted

(***************************************************************************)
(* C17. The poll loop for operation OP returns only after a lookup that    *)
(* raised or found OP_COMPLETE or OP_FAILED; after any other status,       *)
(* a terminal status of the other operation included, it sleeps and stays  *)
(* in the loop, however many lookups were made; and when the remote        *)
(* eventually produces one of the three observations, the loop eventually  *)
(* returns.                                                                 *)
(***************************************************************************)
C17_ReturnsOnlyOnTerminal ==
    /\ pc = "returned" => /\ polls # <<>>
                          /\ ~Pending(operation, LastPoll)
                          /\ PendingBeforeLast
    /\ pc = "loop" => /\ \A k \in 1..Len(polls) : Pending(operation, polls[k])
                      /\ sleeps = Len(polls)
                      /\ result = NoResult

C17_LoopReturns ==
    /\ []C17_ReturnsOnlyOnTerminal
    /\ (pc = "loop") ~> (pc = "returned")

\* a DELETE still looping after as many lookups as are kept, the latest of
\* which found CREATE_FAILED
C17_Witness ==
    /\ pc = "loop" /\ operation = "DELETE"
    /\ Len(polls) = MaxPolls - 1
    /\ LastPoll = "CREATE_FAILED"
    /\ sleeps = MaxPolls - 1


====
